---- MODULE Spec2Model ----
(***************************************************************************)
(* dewpoint: a command-line dew point calculator (src/dewpoint.cc).        *)
(*                                                                         *)
(* A C string is modelled as a sequence of one-character strings; the      *)
(* character at C offset k of s is s[k+1] and the terminating NUL is read  *)
(* at offset Len(s).  argv is a function on 0..argc-1, as in C.            *)
(* A std::optional<float> is a record [has_value, value].                  *)
(***************************************************************************)
EXTENDS Integers, Sequences, FiniteSets, TLC

\* ------------------------------------------------------------------ bounds
\* Largest number of command-line arguments after the program name.
MaxArgs == 3
\* Longest locale string enumerated exhaustively over LocaleAlphabet.
MaxLocaleLen == 5

\* ------------------------------------------------------- C string helpers
NUL == "NUL"

CharAt(s, k) == IF k < Len(s) THEN s[k + 1] ELSE NUL

Min(a, b) == IF a < b THEN a ELSE b

\* std::string_view::npos after conversion to int (lines 49-50).
npos == -1

\* Offset of the first occurrence of ch at or after offset k, or npos.
FindFrom(s, ch, k) ==
    IF \E i \in k..(Len(s) - 1) : s[i + 1] = ch
    THEN CHOOSE i \in k..(Len(s) - 1) :
            s[i + 1] = ch /\ \A j \in k..(i - 1) : s[j + 1] # ch
    ELSE npos

\* std::string_view::find(char): offset of the first occurrence, or npos.
Find(s, ch) == FindFrom(s, ch, 0)

\* std::string_view::substr(pos, n), for pos <= size().
Substr(s, pos, n) == SubSeq(s, pos + 1, Min(pos + n, Len(s)))

\* ------------------------------------------------------------ literals
kShortUsage == "Usage: dewpoint TEMPERATURE HUMIDITY\n"

kHelp ==
    "Compute the dew point from a given temperature and humidity. Temperatures are\n"
    \o "interpreted by default according to the current locale; humidity is interpreted\n"
    \o "as a percentage.\n"
    \o "\n"
    \o "Options:\n"
    \o "      -c, --celsius, --centigrade\n"
    \o "                              use the Celsius temperature scale\n"
    \o "      -f, --fahrenheit        use the Fahrenheit temperature scale\n"
    \o "      --help                  display this help and exit\n"

kAskForHelp == "Try 'dewpoint --help' for more information\n"

kHelpLongOption == 128

\* Character codes returned by getopt_long.
Char_c == 99
Char_f == 102
Char_question == 63
EndOfScan == -1

\* The codes of the option characters that can occur in the modelled argv.
CharCode(ch) ==
    CASE ch = "c" -> Char_c
      [] ch = "f" -> Char_f
      [] OTHER -> Char_question

\* One piece of text written to a stream; arg is the operand streamed into
\* it (a token, the locale name), <<>> when there is none.
Line(text) == [text |-> text, arg |-> <<>>]

Quoted(text, tok) == [text |-> text, arg |-> tok]

\* -------------------------------------------------- Locale Inspector
\* The territories compared against on lines 57-62.
FahrenheitTerritories ==
    { <<"U", "S">>, <<"L", "R">>, <<"F", "M">>,
      <<"K", "Y">>, <<"M", "H">>, <<"P", "W">> }

\* A variant that looks for the '.' only after the '_'.
LocaleUsesFahrenheit_DotAfterUnderscore(locale) ==
    LET underscore == Find(locale, "_")
        dot == IF underscore = npos THEN npos
               ELSE FindFrom(locale, ".", underscore + 1)
    IN  IF underscore = npos \/ dot = npos \/ dot <= underscore
        THEN FALSE
        ELSE Substr(locale, underscore + 1, dot - underscore - 1)
                 \in FahrenheitTerritories

LocaleUsesFahrenheit(locale) ==
    LET underscore == Find(locale, "_")
        dot == Find(locale, ".")
    IN  IF underscore = npos \/ dot = npos \/ dot <= underscore
        THEN FALSE
        ELSE Substr(locale, underscore + 1, dot - underscore - 1)
                 \in FahrenheitTerritories

\* ------------------------------------------------------------ ReadFloat
Digits == {"0", "1", "2", "3", "4", "5", "6", "7", "8", "9"}

HexDigits == Digits \cup {"a", "b", "c", "d", "e", "f",
                          "A", "B", "C", "D", "E", "F"}

\* The vertical tab, which has no escape in a string here.
VT == "VT"

\* isspace in the C locale.
WhiteSpace == {" ", "\t", "\n", "\r", "\f", VT}

\* The characters allowed between the parentheses of nan(...).
NCharSet ==
    Digits \cup {"_"} \cup
    {"a","b","c","d","e","f","g","h","i","j","k","l","m","n","o","p","q",
     "r","s","t","u","v","w","x","y","z"} \cup
    {"A","B","C","D","E","F","G","H","I","J","K","L","M","N","O","P","Q",
     "R","S","T","U","V","W","X","Y","Z"}

HexValue(ch) ==
    CASE ch = "0" -> 0 [] ch = "1" -> 1 [] ch = "2" -> 2 [] ch = "3" -> 3
      [] ch = "4" -> 4 [] ch = "5" -> 5 [] ch = "6" -> 6 [] ch = "7" -> 7
      [] ch = "8" -> 8 [] ch = "9" -> 9
      [] ch \in {"a", "A"} -> 10 [] ch \in {"b", "B"} -> 11
      [] ch \in {"c", "C"} -> 12 [] ch \in {"d", "D"} -> 13
      [] ch \in {"e", "E"} -> 14 [] ch \in {"f", "F"} -> 15

\* tolower on the letters of "infinity" and "nan".
ToLower(ch) ==
    CASE ch = "I" -> "i" [] ch = "N" -> "n" [] ch = "F" -> "f"
      [] ch = "T" -> "t" [] ch = "Y" -> "y" [] ch = "A" -> "a"
      [] OTHER -> ch

\* strncasecmp of the characters of s at offset k with word.
MatchesWord(s, k, word) ==
    \A i \in 1..Len(word) : ToLower(CharAt(s, k + i - 1)) = word[i]

\* Offset of the first character at or after k that is not in set.
SpanEnd(s, k, set) ==
    IF k >= Len(s) THEN k
    ELSE CHOOSE j \in k..Len(s) :
            /\ CharAt(s, j) \notin set
            /\ \A i \in k..(j - 1) : CharAt(s, i) \in set

DigitsEnd(s, k) == SpanEnd(s, k, Digits)

SkipSpace(s, k) == SpanEnd(s, k, WhiteSpace)

\* Value of the decimal digits s[from..to-1], most significant first.
RECURSIVE DecimalValue(_, _, _)
DecimalValue(s, from, to) ==
    IF to <= from THEN 0
    ELSE 10 * DecimalValue(s, from, to - 1) + HexValue(CharAt(s, to - 1))

\* The value of the exponent digits s[from..to-1], saturating: an exponent
\* of more than six digits already decides the result.
ExponentValue(s, from, to) ==
    LET nz == Min(SpanEnd(s, from, {"0"}), to)
    IN  IF to - nz > 6 THEN 1000000 ELSE DecimalValue(s, nz, to)

\* Number of zeros at the front and at the back of a sequence of digit
\* values.
LeadingZeros(n) ==
    IF \A i \in DOMAIN n : n[i] = 0 THEN Len(n)
    ELSE (CHOOSE i \in DOMAIN n :
            n[i] # 0 /\ \A j \in 1..(i - 1) : n[j] = 0) - 1

TrailingZeros(n) ==
    IF \A i \in DOMAIN n : n[i] = 0 THEN Len(n)
    ELSE Len(n) - (CHOOSE i \in DOMAIN n :
                     n[i] # 0 /\ \A j \in (i + 1)..Len(n) : n[j] = 0)

\* Comparison of 0.a1 a2 ... with 0.b1 b2 ...: -1, 0 or 1.
CompareFraction(a, b) ==
    LET n == IF Len(a) < Len(b) THEN Len(b) ELSE Len(a)
        A(i) == IF i <= Len(a) THEN a[i] ELSE 0
        B(i) == IF i <= Len(b) THEN b[i] ELSE 0
    IN  IF \A i \in 1..n : A(i) = B(i) THEN 0
        ELSE LET k == CHOOSE i \in 1..n :
                        A(i) # B(i) /\ \A j \in 1..(i - 1) : A(j) = B(j)
             IN  IF A(k) < B(k) THEN 0 - 1 ELSE 1

\* 2^128 - 2^103 = 0.34028... * 10^39: the least real that rounds to
\* infinity (FLT_MAX plus half a unit in the last place).
FltOverflowDigits ==
    <<
      3,4,0,2,8,2,3,5,6,7,7,9,7,3,3,6,6,1,6,3,7,5,3,9,3,9,5,4,5,8,1,4,2,
      5,6,8,4,4,8 >>

\* 2^-150 = 0.70064... * 10^-45: the greatest real that rounds to zero
\* (half the least subnormal).
FltUnderflowDigits ==
    <<
      7,0,0,6,4,9,2,3,2,1,6,2,4,0,8,5,3,5,4,6,1,8,6,4,7,9,1,6,4,4,9,5,8,
      0,6,5,6,4,0,1,3,0,9,7,0,9,3,8,2,5,7,8,8,5,8,7,8,5,3,4,1,4,1,9,4,4,
      8,9,5,5,4,1,3,4,2,9,3,0,3,0,0,7,4,3,3,1,9,0,9,4,1,8,1,0,6,0,7,9,1,
      0,1,5,6,2,5 >>

\* A float is a record [nan, inf, neg, zero, base, digits, exp].  A finite
\* non-zero value is the binary32 nearest to the real number
\* 0.d1 d2 ... dn * 10^exp in base 10, or 0.h1 h2 ... hn * 2^exp in base 16,
\* where digits has neither leading nor trailing zeros.
Finite(neg, base, digits, exp) ==
    [nan |-> FALSE, inf |-> FALSE, neg |-> neg, zero |-> FALSE,
     base |-> base, digits |-> digits, exp |-> exp]

Zero(neg) == [nan |-> FALSE, inf |-> FALSE, neg |-> neg, zero |-> TRUE,
              base |-> 10, digits |-> <<>>, exp |-> 0]

NaN(neg) == [nan |-> TRUE, inf |-> FALSE, neg |-> neg, zero |-> FALSE,
             base |-> 10, digits |-> <<>>, exp |-> 0]

Inf(neg) == [nan |-> FALSE, inf |-> TRUE, neg |-> neg, zero |-> FALSE,
             base |-> 10, digits |-> <<>>, exp |-> 0]

\* The float nearest to n * 10^e, n a sequence of decimal digit values.
MakeDecimalFloat(neg, n, e) ==
    LET lz == LeadingZeros(n)
        digits == SubSeq(n, lz + 1, Len(n) - TrailingZeros(n))
        exp == (Len(n) - lz) + e
    IN  IF lz = Len(n) THEN Zero(neg)
        ELSE IF exp > 39 \/ (exp = 39 /\
                  CompareFraction(digits, FltOverflowDigits) >= 0)
        THEN Inf(neg)
        ELSE IF exp < 0 - 45 \/ (exp = 0 - 45 /\
                  CompareFraction(digits, FltUnderflowDigits) <= 0)
        THEN Zero(neg)
        ELSE Finite(neg, 10, digits, exp)

\* The float nearest to n * 2^e, n a sequence of hexadecimal digit values.
\* With the leading one of n as the first bit after the binary point the
\* value is 0.1b2b3... * 2^q: it rounds to infinity from 2^128 - 2^103 on
\* (q = 128 and 25 leading ones) and to zero up to 2^-150 (q = -149 and no
\* other bit set).  At q = -149 the C library's rounding does not look at
\* the 25th bit, so 2^-150 + 2^-174 becomes zero as well.
MakeHexFloat(neg, n, e) ==
    LET lz == LeadingZeros(n)
        digits == SubSeq(n, lz + 1, Len(n) - TrailingZeros(n))
        exp == 4 * (Len(n) - lz) + e
        Bit(j) == IF j > 4 * Len(digits) THEN 0
                  ELSE (digits[((j - 1) \div 4) + 1]
                           \div (2 ^ (3 - ((j - 1) % 4)))) % 2
        first == CHOOSE j \in 1..4 : Bit(j) = 1 /\ \A i \in 1..(j - 1) : Bit(i) = 0
        q == exp - (first - 1)
    IN  IF lz = Len(n) THEN Zero(neg)
        ELSE IF q > 128 \/ (q = 128 /\
                  \A j \in first..(first + 24) : Bit(j) = 1)
        THEN Inf(neg)
        ELSE IF q < 0 - 149 \/ (q = 0 - 149 /\
                  \A j \in (first + 1)..(4 * Len(digits)) :
                      Bit(j) = 0 \/ j = first + 24)
        THEN Zero(neg)
        ELSE Finite(neg, 16, digits, exp)

\* An exponent part at offset k, introduced by a character of marks: the
\* offset after it and its value; k and 0 when no digit follows.
ExponentPart(s, k, marks) ==
    LET signed == CharAt(s, k + 1) \in {"+", "-"}
        from == IF signed THEN k + 2 ELSE k + 1
        to == DigitsEnd(s, from)
        v == ExponentValue(s, from, to)
    IN  IF CharAt(s, k) \in marks /\ to > from
        THEN [end |-> to,
              value |-> IF CharAt(s, k + 1) = "-" THEN 0 - v ELSE v]
        ELSE [end |-> k, value |-> 0]

\* A number at offset q in the given digit set: integer digits, an
\* optional radix character dp and fraction digits.  The offset of its
\* end, the values of its digits and the number of fraction digits.
Mantissa(s, q, set, dp) ==
    LET i == SpanEnd(s, q, set)
        f == IF CharAt(s, i) = dp THEN SpanEnd(s, i + 1, set) ELSE i
        chars == SelectSeq(SubSeq(s, q + 1, f), LAMBDA ch : ch # dp)
    IN  [end |-> f,
         digits |-> [j \in 1..Len(chars) |-> HexValue(chars[j])],
         nfrac |-> IF f > i THEN f - i - 1 ELSE 0]

\* strtof(s, &end), dp the radix character of the LC_NUMERIC locale:
\* white space, an optional sign, then "inf" or "infinity", "nan" or
\* "nan(n-char-sequence)", a hexadecimal or a decimal floating constant.
\* When no conversion is performed the value is zero and end is s itself.
\* Returns the value and the offset of end.
strtof(s, dp) ==
    LET p == SkipSpace(s, 0)
        signed == CharAt(s, p) \in {"+", "-"}
        neg == CharAt(s, p) = "-"
        q == IF signed THEN p + 1 ELSE p
        dec == Mantissa(s, q, Digits, dp)
        dexp == ExponentPart(s, dec.end, {"e", "E"})
        ishex == CharAt(s, q) = "0" /\ CharAt(s, q + 1) \in {"x", "X"}
        hex == Mantissa(s, q + 2, HexDigits, dp)
        hexp == ExponentPart(s, hex.end, {"p", "P"})
        nchars == SpanEnd(s, q + 4, NCharSet)
    IN  IF MatchesWord(s, q, <<"i","n","f">>)
        THEN [f |-> Inf(neg),
              end |-> IF MatchesWord(s, q, <<"i","n","f","i","n","i","t","y">>)
                      THEN q + 8 ELSE q + 3]
        ELSE IF MatchesWord(s, q, <<"n","a","n">>)
        THEN [f |-> NaN(neg),
              end |-> IF CharAt(s, q + 3) = "(" /\ CharAt(s, nchars) = ")"
                      THEN nchars + 1 ELSE q + 3]
        ELSE IF ishex /\ hex.digits # <<>>
        THEN [f |-> MakeHexFloat(neg, hex.digits,
                                 hexp.value - 4 * hex.nfrac),
              end |-> hexp.end]
        ELSE IF dec.digits # <<>>
        THEN [f |-> MakeDecimalFloat(neg, dec.digits,
                                     dexp.value - dec.nfrac),
              end |-> dexp.end]
        ELSE [f |-> Zero(FALSE), end |-> 0]

nullopt == [has_value |-> FALSE, value |-> Zero(FALSE)]

Some(f) == [has_value |-> TRUE, value |-> f]

ReadFloat(s, dp) ==
    LET r == strtof(s, dp)
    IN  IF CharAt(s, r.end) # NUL THEN nullopt ELSE Some(r.f)

\* The comparison *humidity <= 0.0f: false for a NaN.
LeqZero(f) == ~f.nan /\ (f.zero \/ f.neg)

\* -------------------------------------------------------- getopt_long
\* The scan state of getopt_long (glibc): argv, optind, first_nonopt and
\* last_nonopt (the non-options skipped so far occupy
\* first_nonopt..last_nonopt-1), nextchar, the offset in argv[optind] of
\* the next short option character (0 when a new element is due), and
\* posixly_correct: whether POSIXLY_CORRECT is set in the environment, which
\* makes the ordering REQUIRE_ORDER instead of PERMUTE.
no_argument == 0

long_options ==
    << [name |-> <<"c","e","l","s","i","u","s">>, has_arg |-> no_argument,
        val |-> Char_c],
       [name |-> <<"c","e","n","t","i","g","r","a","d","e">>,
        has_arg |-> no_argument, val |-> Char_c],
       [name |-> <<"f","a","h","r","e","n","h","e","i","t">>,
        has_arg |-> no_argument, val |-> Char_f],
       [name |-> <<"h","e","l","p">>, has_arg |-> no_argument,
        val |-> kHelpLongOption] >>

\* The short options string "cf".
optstring == {"c", "f"}

NONOPTION_P(s) == CharAt(s, 0) # "-" \/ CharAt(s, 1) = NUL

\* Swap the non-options first_nonopt..last_nonopt-1 with the options
\* last_nonopt..optind-1 that follow them, so that the options come first.
exchange(d) ==
    LET bottom == d.first_nonopt
        middle == d.last_nonopt
        top == d.optind
        nopts == top - middle
    IN  [d EXCEPT
           !.argv = [i \in DOMAIN d.argv |->
                       IF i >= bottom /\ i < bottom + nopts
                       THEN d.argv[middle + (i - bottom)]
                       ELSE IF i >= bottom + nopts /\ i < top
                       THEN d.argv[bottom + (i - (bottom + nopts))]
                       ELSE d.argv[i]],
           !.first_nonopt = bottom + nopts,
           !.last_nonopt = top]

RECURSIVE SkipNonoptions(_, _, _)
SkipNonoptions(argv, argc, i) ==
    IF i < argc /\ NONOPTION_P(argv[i])
    THEN SkipNonoptions(argv, argc, i + 1)
    ELSE i

\* Advance to the next argv element: under PERMUTE, permute the
\* non-options skipped before, then skip the non-options that follow.
AdvancePermute(d0, argc) ==
    LET d == [d0 EXCEPT !.last_nonopt = Min(@, d0.optind),
                        !.first_nonopt = Min(@, d0.optind)]
        e == IF d.first_nonopt # d.last_nonopt /\ d.last_nonopt # d.optind
             THEN exchange(d)
             ELSE IF d.last_nonopt # d.optind
             THEN [d EXCEPT !.first_nonopt = d.optind]
             ELSE d
        o == SkipNonoptions(e.argv, argc, e.optind)
    IN  IF d.posixly_correct THEN d
        ELSE [e EXCEPT !.optind = o, !.last_nonopt = o]

\* The element "--" ends the options: it is skipped like an option and
\* everything after it is a non-option.
EndOfOptionsMarker(d, argc) ==
    IF d.optind # argc /\ d.argv[d.optind] = <<"-", "-">>
    THEN LET a == [d EXCEPT !.optind = @ + 1]
             b == IF a.first_nonopt # a.last_nonopt /\ a.last_nonopt # a.optind
                  THEN exchange(a)
                  ELSE IF a.first_nonopt = a.last_nonopt
                  THEN [a EXCEPT !.first_nonopt = a.optind]
                  ELSE a
         IN  [b EXCEPT !.last_nonopt = argc, !.optind = argc]
    ELSE d

IsPrefix(p, s) == Len(p) <= Len(s) /\ SubSeq(s, 1, Len(p)) = p

\* A long option "--name" or "--name=value": an exact match of name, or
\* else an abbreviation that matches the entries of one option only.
process_long_option(d) ==
    LET arg == d.argv[d.optind]
        eq == FindFrom(arg, "=", d.nextchar)
        nameend == IF eq = npos THEN Len(arg) ELSE eq
        name == SubSeq(arg, d.nextchar + 1, nameend)
        exact == {i \in DOMAIN long_options : long_options[i].name = name}
        abbrev == {i \in DOMAIN long_options :
                      IsPrefix(name, long_options[i].name)}
        ambiguous == \E i, j \in abbrev :
                        \/ long_options[i].has_arg # long_options[j].has_arg
                        \/ long_options[i].val # long_options[j].val
        next == [d EXCEPT !.optind = @ + 1, !.nextchar = 0]
        found == IF exact # {} THEN exact ELSE abbrev
        pfound == long_options[CHOOSE i \in found : \A j \in found : i <= j]
    IN  IF exact = {} /\ abbrev = {}
        THEN [c |-> Char_question, d |-> next,
              err |-> <<Quoted("getopt: unrecognized option ", arg)>>]
        ELSE IF exact = {} /\ ambiguous
        THEN [c |-> Char_question, d |-> next,
              err |-> <<Quoted("getopt: option is ambiguous ", arg)>>]
        ELSE IF eq # npos /\ pfound.has_arg = no_argument
        THEN [c |-> Char_question, d |-> next,
              err |-> <<Quoted("getopt: option does not allow an argument ",
                               <<"-", "-">> \o pfound.name)>>]
        ELSE [c |-> pfound.val, d |-> next, err |-> <<>>]

\* The next short option character of argv[optind]; optind moves on when
\* the element's last character is taken.
short_option(d) ==
    LET arg == d.argv[d.optind]
        ch == CharAt(arg, d.nextchar)
        last == CharAt(arg, d.nextchar + 1) = NUL
        next == IF last
                THEN [d EXCEPT !.optind = @ + 1, !.nextchar = 0]
                ELSE [d EXCEPT !.nextchar = @ + 1]
    IN  IF ch \notin optstring
        THEN [c |-> Char_question, d |-> next,
              err |-> <<Quoted("getopt: invalid option -- ", <<ch>>)>>]
        ELSE [c |-> CharCode(ch), d |-> next, err |-> <<>>]

\* One call getopt_long(argc, argv, "cf", long_options, nullptr): the
\* value returned, the scan state after it and what it wrote to stderr.
getopt_long(d0, argc) ==
    IF d0.nextchar = 0
    THEN LET d == EndOfOptionsMarker(AdvancePermute(d0, argc), argc)
         IN  IF d.optind = argc
             THEN [c |-> EndOfScan,
                   d |-> IF d.first_nonopt # d.last_nonopt
                         THEN [d EXCEPT !.optind = d.first_nonopt]
                         ELSE d,
                   err |-> <<>>]
             ELSE IF NONOPTION_P(d.argv[d.optind])
             THEN [c |-> EndOfScan, d |-> d, err |-> <<>>]
             ELSE IF CharAt(d.argv[d.optind], 1) = "-"
             THEN process_long_option([d EXCEPT !.nextchar = 2])
             ELSE short_option([d EXCEPT !.nextchar = 1])
    ELSE short_option(d0)

\* ------------------------------------------------------------- inputs
ProgName == <<"d","e","w","p","o","i","n","t">>

Tok_c == <<"-","c">>
Tok_f == <<"-","f">>
Tok_celsius == <<"-","-","c","e","l","s","i","u","s">>
Tok_centigrade == <<"-","-","c","e","n","t","i","g","r","a","d","e">>
Tok_fahrenheit == <<"-","-","f","a","h","r","e","n","h","e","i","t">>
Tok_help == <<"-","-","h","e","l","p">>
Tok_he == <<"-","-","h","e">>
Tok_x == <<"-","x">>
Tok_dashdash == <<"-","-">>
Tok_20 == <<"2","0">>
Tok_50 == <<"5","0">>
Tok_0 == <<"0">>
Tok_minus5 == <<"-","5">>
Tok_abc == <<"a","b","c">>
Tok_empty == <<>>
Tok_20x == <<"2","0","x">>
Tok_nan == <<"n","a","n">>
Tok_1p5 == <<"1",".","5">>
Tok_1c5 == <<"1",",","5">>

\* The command-line tokens the runs are drawn from.
Tokens ==
    { Tok_c, Tok_f, Tok_celsius, Tok_centigrade, Tok_fahrenheit, Tok_help,
      Tok_he, Tok_x, Tok_dashdash, Tok_20, Tok_50, Tok_0, Tok_minus5, Tok_abc,
      Tok_empty, Tok_20x, Tok_nan, Tok_1p5, Tok_1c5 }

\* All sequences over S of length at most n.
SeqsUpTo(S, n) == UNION { [1..k -> S] : k \in 0..n }

CommandLines == SeqsUpTo(Tokens, MaxArgs)

\* What setlocale(LC_MEASUREMENT, "") returns: a null pointer or a name.
nullptr == [null |-> TRUE, str |-> <<>>]

Name(str) == [null |-> FALSE, str |-> str]

Locale_C == <<"C">>
Locale_en_US == <<"e","n","_","U","S",".","U","T","F","-","8">>
Locale_de_DE == <<"d","e","_","D","E",".","U","T","F","-","8">>

\* The environments the runs are drawn from: what
\* setlocale(LC_MEASUREMENT, "") returns, the radix character of the
\* LC_NUMERIC locale that setlocale(LC_ALL, "") installs, and whether
\* POSIXLY_CORRECT is set.
Environments ==
    { [lc_measurement |-> nullptr, decimal_point |-> ".",
       posixly_correct |-> FALSE],
      [lc_measurement |-> Name(Locale_en_US), decimal_point |-> ".",
       posixly_correct |-> FALSE],
      [lc_measurement |-> Name(Locale_de_DE), decimal_point |-> ",",
       posixly_correct |-> FALSE],
      [lc_measurement |-> nullptr, decimal_point |-> ".",
       posixly_correct |-> TRUE] }

\* Locale names for the inspection of LocaleUsesFahrenheit alone: every
\* string over LocaleAlphabet up to MaxLocaleLen, and prefix_TERRITORY.suffix
\* strings for the listed territories and near misses of them.
LocaleAlphabet == {"_", ".", "U", "S", "A", "e"}

TerritoryProbes ==
    FahrenheitTerritories \cup
    { <<"U","S","A">>, <<"u","s">>, <<"U","s">>, <<"G","B">>, <<"S","U">>,
      <<"L">>, <<"R","L">>, <<"P","W","_">>, <<"_","K","Y">> }

StructuredLocales ==
    { pre \o mid \o t \o post :
        pre \in { <<>>, <<"e","n">>, <<"e",".","n">> },
        mid \in { <<>>, <<"_">> },
        t \in TerritoryProbes,
        post \in { <<>>, <<".">>, <<".","U","T","F","-","8">>, <<"@","x">> } }

LocaleInputs ==
    SeqsUpTo(LocaleAlphabet, MaxLocaleLen) \cup StructuredLocales
      \cup { Locale_C, Locale_en_US,
             <<"e","n","_","U","S","A",".","U","T","F","-","8">> }

\* -------------------------------------------------------------- state
VARIABLES
    cmdline,                 \* the arguments as given, argv[1..argc-1]
    setlocale_result,        \* what setlocale(LC_MEASUREMENT, "") returns
    decimal_point,           \* the radix character of the LC_NUMERIC locale
    posixly_correct,         \* whether POSIXLY_CORRECT is set
    measurement_locale,
    locale_uses_fahrenheit,
    use_fahrenheit,
    argc,
    argv,                    \* as permuted by getopt_long
    optind, first_nonopt, last_nonopt, nextchar,
    temperature, humidity,   \* std::optional<float>
    calc,                    \* the call of the calculator, if any
    out, err,                \* what was written to std::cout and std::cerr
    exit_status,             \* -1 while main runs
    pc

vars == << cmdline, setlocale_result, decimal_point, posixly_correct,
                    measurement_locale,
           locale_uses_fahrenheit, use_fahrenheit, argc, argv, optind,
           first_nonopt, last_nonopt, nextchar, temperature, humidity, calc,
           out, err, exit_status, pc >>

Running == -1

NoCall == [called |-> FALSE, fahrenheit |-> FALSE,
           temperature |-> Zero(FALSE), humidity |-> Zero(FALSE)]

InitWith(args, env) ==
    /\ cmdline = args
    /\ setlocale_result = env.lc_measurement
    /\ decimal_point = env.decimal_point
    /\ posixly_correct = env.posixly_correct
    /\ measurement_locale = Locale_C
    /\ locale_uses_fahrenheit = FALSE
    /\ use_fahrenheit = FALSE
    /\ argc = Len(args) + 1
    /\ argv = [i \in 0..Len(args) |-> IF i = 0 THEN ProgName ELSE args[i]]
    /\ optind = 1
    /\ first_nonopt = 1
    /\ last_nonopt = 1
    /\ nextchar = 0
    /\ temperature = nullopt
    /\ humidity = nullopt
    /\ calc = NoCall
    /\ out = <<>>
    /\ err = <<>>
    /\ exit_status = Running
    /\ pc = "start"

Init == \E args \in CommandLines, env \in Environments : InitWith(args, env)

InitLocale ==
    \E str \in LocaleInputs :
        InitWith(<<>>, [lc_measurement |-> Name(str), decimal_point |-> ".",
                        posixly_correct |-> FALSE])

\* --------------------------------------------------------------- main
\* Lines 96-104: the measurement locale and the default unit.
Startup ==
    /\ pc = "start"
    /\ measurement_locale' = IF ~setlocale_result.null
                             THEN setlocale_result.str
                             ELSE measurement_locale
    /\ locale_uses_fahrenheit' = LocaleUsesFahrenheit(measurement_locale')
    /\ use_fahrenheit' = locale_uses_fahrenheit'
    /\ pc' = "getopt"
    /\ UNCHANGED << cmdline, setlocale_result, decimal_point,
                    posixly_correct, argc, argv, optind,
                    first_nonopt, last_nonopt, nextchar, temperature,
                    humidity, calc, out, err, exit_status >>

HelpText(locale, luf) ==
    << Line(kShortUsage), Line(kHelp),
       Quoted("\nYour current measurement locale is ", locale),
       Line(", which uses "),
       Line(IF luf THEN "Fahrenheit" ELSE "Celsius"),
       Line(" by\ndefault.\n") >>

\* A variant whose --help case falls out of the switch without returning.
SwitchOption_HelpFallsThrough(c, uf, locale, luf) ==
    CASE c = Char_c -> [use_fahrenheit |-> FALSE, out |-> <<>>,
                        err |-> <<>>, ret |-> Running]
      [] c = Char_f -> [use_fahrenheit |-> TRUE, out |-> <<>>,
                        err |-> <<>>, ret |-> Running]
      [] c = kHelpLongOption ->
                       [use_fahrenheit |-> uf, out |-> HelpText(locale, luf),
                        err |-> <<>>, ret |-> Running]
      [] c = Char_question ->
                       [use_fahrenheit |-> uf, out |-> <<>>,
                        err |-> <<Line(kAskForHelp)>>, ret |-> 1]
      [] OTHER ->      [use_fahrenheit |-> uf, out |-> <<>>,
                        err |-> <<Line("Internal error; please report.\n")>>,
                        ret |-> 1]

\* A variant whose 'f' case carries the assignment of the 'c' case.
SwitchOption_FahrenheitClears(c, uf, locale, luf) ==
    CASE c = Char_c -> [use_fahrenheit |-> FALSE, out |-> <<>>,
                        err |-> <<>>, ret |-> Running]
      [] c = Char_f -> [use_fahrenheit |-> FALSE, out |-> <<>>,
                        err |-> <<>>, ret |-> Running]
      [] c = kHelpLongOption ->
                       [use_fahrenheit |-> uf, out |-> HelpText(locale, luf),
                        err |-> <<>>, ret |-> 0]
      [] c = Char_question ->
                       [use_fahrenheit |-> uf, out |-> <<>>,
                        err |-> <<Line(kAskForHelp)>>, ret |-> 1]
      [] OTHER ->      [use_fahrenheit |-> uf, out |-> <<>>,
                        err |-> <<Line("Internal error; please report.\n")>>,
                        ret |-> 1]

\* Lines 118-138, the switch on the value of getopt_long: the new
\* use_fahrenheit, the text written, and the value returned from main
\* (Running when the case ends in break).
SwitchOption(c, uf, locale, luf) ==
    CASE c = Char_c -> [use_fahrenheit |-> FALSE, out |-> <<>>,
                        err |-> <<>>, ret |-> Running]
      [] c = Char_f -> [use_fahrenheit |-> TRUE, out |-> <<>>,
                        err |-> <<>>, ret |-> Running]
      [] c = kHelpLongOption ->
                       [use_fahrenheit |-> uf, out |-> HelpText(locale, luf),
                        err |-> <<>>, ret |-> 0]
      [] c = Char_question ->
                       [use_fahrenheit |-> uf, out |-> <<>>,
                        err |-> <<Line(kAskForHelp)>>, ret |-> 1]
      [] OTHER ->      [use_fahrenheit |-> uf, out |-> <<>>,
                        err |-> <<Line("Internal error; please report.\n")>>,
                        ret |-> 1]

\* Lines 113-139: one iteration of the option loop.
OptionLoop ==
    /\ pc = "getopt"
    /\ LET r == getopt_long([argv |-> argv, optind |-> optind,
                             first_nonopt |-> first_nonopt,
                             last_nonopt |-> last_nonopt,
                             nextchar |-> nextchar,
                             posixly_correct |-> posixly_correct], argc)
           sw == SwitchOption(r.c, use_fahrenheit, measurement_locale,
                              locale_uses_fahrenheit)
       IN  /\ argv' = r.d.argv
           /\ optind' = r.d.optind
           /\ first_nonopt' = r.d.first_nonopt
           /\ last_nonopt' = r.d.last_nonopt
           /\ nextchar' = r.d.nextchar
           /\ IF r.c = EndOfScan
              THEN /\ pc' = "argc"
                   /\ UNCHANGED << use_fahrenheit, out, err, exit_status >>
              ELSE /\ use_fahrenheit' = sw.use_fahrenheit
                   /\ out' = out \o sw.out
                   /\ err' = err \o r.err \o sw.err
                   /\ exit_status' = sw.ret
                   /\ pc' = IF sw.ret = Running THEN "getopt" ELSE "done"
    /\ UNCHANGED << cmdline, setlocale_result, decimal_point, posixly_correct,
                    measurement_locale,
                    locale_uses_fahrenheit, argc, temperature, humidity,
                    calc >>

\* A variant that only rejects too few arguments.
WrongArgumentCount_TooFewOnly(oi, ac) == oi > ac - 2

\* Line 141.
WrongArgumentCount(oi, ac) == oi # ac - 2

\* Lines 141-144.
CheckArgumentCount ==
    /\ pc = "argc"
    /\ IF WrongArgumentCount(optind, argc)
       THEN /\ err' = err \o <<Line(kShortUsage), Line(kAskForHelp)>>
            /\ exit_status' = 1
            /\ pc' = "done"
       ELSE /\ pc' = "temperature"
            /\ UNCHANGED << err, exit_status >>
    /\ UNCHANGED << cmdline, setlocale_result, decimal_point, posixly_correct,
                    measurement_locale,
                    locale_uses_fahrenheit, use_fahrenheit, argc, argv,
                    optind, first_nonopt, last_nonopt, nextchar, temperature,
                    humidity, calc, out >>

\* A variant that prints the usage line as well.
InvalidTemperatureMessage_WithUsage(a) ==
    << Line(kShortUsage), Quoted("dewpoint: invalid temperature ", a[1]),
       Line(kAskForHelp) >>

\* Lines 148-149.
InvalidTemperatureMessage(a) ==
    << Quoted("dewpoint: invalid temperature ", a[1]), Line(kAskForHelp) >>

\* Lines 146-151.
ReadTemperature ==
    /\ pc = "temperature"
    /\ temperature' = ReadFloat(argv[1], decimal_point)
    /\ IF ~temperature'.has_value
       THEN /\ err' = err \o InvalidTemperatureMessage(argv)
            /\ exit_status' = 1
            /\ pc' = "done"
       ELSE /\ pc' = "humidity"
            /\ UNCHANGED << err, exit_status >>
    /\ UNCHANGED << cmdline, setlocale_result, decimal_point, posixly_correct,
                    measurement_locale,
                    locale_uses_fahrenheit, use_fahrenheit, argc, argv,
                    optind, first_nonopt, last_nonopt, nextchar, humidity,
                    calc, out >>

\* Lines 155-156.
InvalidHumidityMessage(a) ==
    << Quoted("dewpoint: invalid humidity ", a[1]), Line(kAskForHelp) >>

\* Lines 153-158.
ReadHumidity ==
    /\ pc = "humidity"
    /\ humidity' = ReadFloat(argv[2], decimal_point)
    /\ IF ~humidity'.has_value \/ LeqZero(humidity'.value)
       THEN /\ err' = err \o InvalidHumidityMessage(argv)
            /\ exit_status' = 1
            /\ pc' = "done"
       ELSE /\ pc' = "calculate"
            /\ UNCHANGED << err, exit_status >>
    /\ UNCHANGED << cmdline, setlocale_result, decimal_point, posixly_correct,
                    measurement_locale,
                    locale_uses_fahrenheit, use_fahrenheit, argc, argv,
                    optind, first_nonopt, last_nonopt, nextchar, temperature,
                    calc, out >>

\* Lines 160-163: the calculator chosen by use_fahrenheit is called with
\* the two values read, its result is rounded and printed on a line of its
\* own, and main returns 0.  The call is recorded; the value of the Magnus
\* formula is left symbolic, so the line printed stands for any integer.
Calculate ==
    /\ pc = "calculate"
    /\ calc' = [called |-> TRUE, fahrenheit |-> use_fahrenheit,
                temperature |-> temperature.value,
                humidity |-> humidity.value]
    /\ out' = out \o << Line("static_cast<int>(rintf(dew_point))"),
                        Line("\n") >>
    /\ exit_status' = 0
    /\ pc' = "done"
    /\ UNCHANGED << cmdline, setlocale_result, decimal_point, posixly_correct,
                    measurement_locale,
                    locale_uses_fahrenheit, use_fahrenheit, argc, argv,
                    optind, first_nonopt, last_nonopt, nextchar, temperature,
                    humidity, err >>

Next ==
    \/ Startup
    \/ OptionLoop
    \/ CheckArgumentCount
    \/ ReadTemperature
    \/ ReadHumidity
    \/ Calculate

Spec == Init /\ [][Next]_vars

\* The Locale Inspector alone, on the locale names of LocaleInputs.
NextLocale == Startup

SpecLocale == InitLocale /\ [][NextLocale]_vars

\* --------------------------------------------------------------------
\* Properties.  The command line is classified here from cmdline and the
\* environment alone, by the usual reading of options and operands, not by
\* the scan above.
\* --------------------------------------------------------------------
UnitFlags == { Tok_c, Tok_f, Tok_celsius, Tok_centigrade, Tok_fahrenheit }

FahrenheitFlags == { Tok_f, Tok_fahrenheit }

LooksLikeOption(t) == Len(t) >= 2 /\ t[1] = "-"

IsOperand(t) == ~LooksLikeOption(t)

IsUnitFlag(t) == t \in UnitFlags

\* The command line read with options allowed anywhere before the first
\* "--": its option tokens and its non-option tokens, in command-line order.
MarkerAt(args) ==
    IF \E i \in DOMAIN args : args[i] = Tok_dashdash
    THEN CHOOSE i \in DOMAIN args :
            args[i] = Tok_dashdash /\ \A j \in 1..(i - 1) : args[j] # Tok_dashdash
    ELSE Len(args) + 1

OptionTokens(args) ==
    SelectSeq(SubSeq(args, 1, MarkerAt(args) - 1), LooksLikeOption)

NonOptionTokens(args) ==
    SelectSeq(SubSeq(args, 1, MarkerAt(args) - 1), IsOperand)
      \o SubSeq(args, MarkerAt(args) + 1, Len(args))

\* The command line read as option processing reads it in the environment
\* of the run.  Index of the argument at which the options end, or
\* Len(args) + 1 when there is none: the first "--", and with
\* POSIXLY_CORRECT set also the first operand.
OptionsEndAt(args) ==
    LET Ends(i) == \/ args[i] = Tok_dashdash
                   \/ (posixly_correct /\ IsOperand(args[i]))
    IN  IF \E i \in DOMAIN args : Ends(i)
        THEN CHOOSE i \in DOMAIN args :
                Ends(i) /\ \A j \in 1..(i - 1) : ~Ends(j)
        ELSE Len(args) + 1

\* The arguments handled as options, in command-line order.
OptionsOf(args) ==
    SelectSeq(SubSeq(args, 1, OptionsEndAt(args) - 1), LooksLikeOption)

\* The arguments left over as positional arguments, in command-line order.
PositionalsOf(args) ==
    LET k == OptionsEndAt(args)
    IN  SelectSeq(SubSeq(args, 1, k - 1), IsOperand)
          \o SubSeq(args,
                    IF k <= Len(args) /\ args[k] = Tok_dashdash
                    THEN k + 1 ELSE k,
                    Len(args))

OnlyUnitFlags(args) ==
    \A i \in DOMAIN OptionsOf(args) : IsUnitFlag(OptionsOf(args)[i])

\* --help is an option and every option before it is a unit flag.
HelpFirst(args) ==
    \E i \in DOMAIN OptionsOf(args) :
        /\ OptionsOf(args)[i] = Tok_help
        /\ \A j \in 1..(i - 1) : IsUnitFlag(OptionsOf(args)[j])

HelpAmongOptions(args) ==
    \E i \in DOMAIN OptionTokens(args) : OptionTokens(args)[i] = Tok_help

NoOtherOptionTokens(args) ==
    \A i \in DOMAIN OptionTokens(args) : IsUnitFlag(OptionTokens(args)[i])

Unsigned(t) == IF t # <<>> /\ t[1] \in {"+", "-"} THEN Tail(t) ELSE t

\* Decimal digits with at most one radix character of the locale among
\* them, and at least one digit.
IsDecimal(t) ==
    /\ \A i \in DOMAIN t : t[i] \in Digits \cup {decimal_point}
    /\ Cardinality({i \in DOMAIN t : t[i] = decimal_point}) <= 1
    /\ \E i \in DOMAIN t : t[i] \in Digits

\* A float literal: an optional sign, then a decimal number or "nan".
IsFloatLiteral(t) == IsDecimal(Unsigned(t)) \/ Unsigned(t) = Tok_nan

\* A float literal whose value is > 0.
IsPositiveLiteral(t) ==
    /\ IsDecimal(Unsigned(t))
    /\ CharAt(t, 0) # "-"
    /\ \E i \in DOMAIN t : t[i] \in Digits \ {"0"}

\* A float literal whose value is <= 0.
IsNonPositiveLiteral(t) ==
    /\ IsDecimal(Unsigned(t))
    /\ \/ CharAt(t, 0) = "-"
       \/ \A i \in DOMAIN t : t[i] \notin Digits \ {"0"}

HasLine(stream, text) == \E i \in DOMAIN stream : stream[i] = Line(text)

HasQuoted(stream, text, tok) ==
    \E i \in DOMAIN stream : stream[i] = Quoted(text, tok)

Finished == pc = "done"

\* The rounded dew point on a line of its own, nothing on stderr, status 0.
SuccessOutcome ==
    /\ exit_status = 0
    /\ calc.called
    /\ Len(out) = 2 /\ out[2] = Line("\n")
    /\ err = <<>>

\* The help text on stdout, nothing on stderr, no calculation, status 0.
HelpOutcome ==
    /\ exit_status = 0
    /\ Len(out) = 6 /\ out[1] = Line(kShortUsage) /\ out[2] = Line(kHelp)
    /\ out[3].arg = measurement_locale
    /\ err = <<>>
    /\ ~calc.called
    /\ temperature = nullopt /\ humidity = nullopt

\* C1: with unit flags anywhere and exactly two operands, a valid
\* temperature then a valid humidity, the run succeeds (in the default
\* environment, POSIXLY_CORRECT not set).
C1_FlagsAndTwoOperandsSucceed ==
    ( /\ Finished
      /\ ~posixly_correct
      /\ \A i \in DOMAIN cmdline : IsUnitFlag(cmdline[i]) \/ IsOperand(cmdline[i])
      /\ Len(NonOptionTokens(cmdline)) = 2
      /\ IsFloatLiteral(NonOptionTokens(cmdline)[1])
      /\ IsPositiveLiteral(NonOptionTokens(cmdline)[2]) )
    => SuccessOutcome

\* C2 as stated: whenever --help is among the options, whatever the other
\* flags and wherever they stand, the run ends in the help outcome.
C2_HelpAlwaysWins ==
    (Finished /\ HelpAmongOptions(cmdline)) => HelpOutcome

\* C2 amended: whenever --help is among the arguments that option
\* processing handles (with POSIXLY_CORRECT set, those before the first
\* operand) and no unrecognized option precedes it, the run ends in the
\* help outcome, whatever follows it and whatever the positional arguments.
C2_HelpWinsUnlessUnknownBefore ==
    (Finished /\ HelpFirst(cmdline)) => HelpOutcome

\* C2 witness: help wins over an unrecognized option after it and an
\* operand before it.
C2_Witness ==
    /\ Finished /\ HelpFirst(cmdline) /\ HelpOutcome
    /\ \E i \in DOMAIN cmdline : cmdline[i] = Tok_x
    /\ Len(cmdline) > 0 /\ IsOperand(cmdline[1])

\* The unit a sequence of option tokens asks for.
ExpectedFahrenheit(options, luf) ==
    LET flags == SelectSeq(options, IsUnitFlag)
    IN  IF flags = <<>> THEN luf
        ELSE flags[Len(flags)] \in FahrenheitFlags

\* C3: the calculator called is the one of the locale's default unit when
\* the command line has no unit flag and of the unit of its last unit flag
\* otherwise; and once option processing has ended the unit selected is
\* the one of the last unit flag it handled (the locale's default when it
\* handled none) and stays so to the end of the run.
C3_LastUnitFlagWins ==
    /\ calc.called =>
          calc.fahrenheit
            = ExpectedFahrenheit(OptionTokens(cmdline),
                                 locale_uses_fahrenheit)
    /\ ( \/ pc \in {"argc", "temperature", "humidity", "calculate"}
         \/ (Finished /\ OnlyUnitFlags(cmdline)) )
       => /\ use_fahrenheit
               = ExpectedFahrenheit(OptionsOf(cmdline),
                                    locale_uses_fahrenheit)
          /\ calc.called => calc.fahrenheit = use_fahrenheit

\* C3 witness: -f then -c under a Fahrenheit locale ends in Celsius.
C3_Witness ==
    /\ pc = "argc"
    /\ locale_uses_fahrenheit
    /\ ~use_fahrenheit
    /\ Len(OptionsOf(cmdline)) >= 2
    /\ OptionsOf(cmdline)[1] \in FahrenheitFlags
    /\ OptionsOf(cmdline)[Len(OptionsOf(cmdline))] \in UnitFlags \ FahrenheitFlags

\* C4: a valid temperature and an invalid (non-empty) humidity token end
\* in status 1 with the invalid-humidity diagnostic quoting the humidity
\* token.
C4_HumidityDiagnosticQuotesHumidity ==
    ( /\ Finished
      /\ Len(cmdline) = 2 /\ NonOptionTokens(cmdline) = cmdline
      /\ IsFloatLiteral(cmdline[1])
      /\ cmdline[2] # <<>>
      /\ ~IsFloatLiteral(cmdline[2]) \/ IsNonPositiveLiteral(cmdline[2]) )
    => /\ exit_status = 1
       /\ HasQuoted(err, "dewpoint: invalid humidity ", cmdline[2])

\* C5: with two positional arguments and nothing else, a temperature token
\* that is not a float literal ends in status 1 with the invalid-temperature
\* diagnostic quoting that token and nothing printed.
C5_InvalidTemperatureRejected ==
    ( /\ Finished
      /\ Len(cmdline) = 2 /\ NonOptionTokens(cmdline) = cmdline
      /\ ~IsFloatLiteral(cmdline[1]) )
    => /\ exit_status = 1
       /\ HasQuoted(err, "dewpoint: invalid temperature ", cmdline[1])
       /\ out = <<>>
       /\ ~calc.called

\* C6: a humidity <= 0 always ends in status 1 with nothing printed, and
\* the calculator, called after a temperature literal, is only ever called
\* with a humidity > 0.
C6_CalculatorHumidityPositive ==
    /\ ( /\ Finished
         /\ NoOtherOptionTokens(cmdline)
         /\ Len(NonOptionTokens(cmdline)) = 2
         /\ IsNonPositiveLiteral(NonOptionTokens(cmdline)[2]) )
       => (exit_status = 1 /\ out = <<>> /\ ~calc.called)
    /\ (calc.called /\ IsFloatLiteral(cmdline[1])) =>
         (~calc.humidity.nan /\ ~calc.humidity.zero /\ ~calc.humidity.neg)

\* C7 as stated: every failure writes the short usage line and the pointer
\* to --help to stderr and exits with status 1.
C7_EveryFailurePrintsUsage ==
    (Finished /\ exit_status # 0)
    => /\ exit_status = 1
       /\ HasLine(err, kShortUsage)
       /\ HasLine(err, kAskForHelp)

\* C7 amended: every failure writes the pointer to --help to stderr and
\* exits with status 1; the short usage line is written exactly when the
\* failure is a wrong number of arguments left after option processing.
C7_EveryFailurePointsToHelp ==
    (Finished /\ exit_status # 0)
    => /\ exit_status = 1
       /\ HasLine(err, kAskForHelp)
       /\ HasLine(err, kShortUsage)
            <=> (OnlyUnitFlags(cmdline) /\ Len(PositionalsOf(cmdline)) # 2)

\* C7 witness: an invalid-temperature failure, without the usage line.
C7_Witness ==
    /\ Finished /\ exit_status = 1
    /\ \E i \in DOMAIN err : err[i].text = "dewpoint: invalid temperature "
    /\ HasLine(err, kAskForHelp)
    /\ ~HasLine(err, kShortUsage)

\* C8: two tokens, a float literal (a leading minus sign included) and a
\* float literal > 0, end in the success outcome.
C8_SignedTemperatureSucceeds ==
    ( /\ Finished
      /\ Len(cmdline) = 2
      /\ IsFloatLiteral(cmdline[1])
      /\ IsPositiveLiteral(cmdline[2]) )
    => SuccessOutcome

ListedTerritories ==
    { <<"U","S">>, <<"L","R">>, <<"F","M">>, <<"K","Y">>, <<"M","H">>,
      <<"P","W">> }

IsFirst(s, i, ch) == s[i] = ch /\ \A j \in 1..(i - 1) : s[j] # ch

\* C9 as stated: true exactly when the text between the first '_' and the
\* first '.' that follows that '_' is a listed territory.
C9_TerritoryUpToDotAfterUnderscore ==
    pc # "start" =>
      ( locale_uses_fahrenheit <=>
          \E u, d \in DOMAIN measurement_locale :
              /\ IsFirst(measurement_locale, u, "_")
              /\ u < d /\ measurement_locale[d] = "."
              /\ \A j \in (u + 1)..(d - 1) : measurement_locale[j] # "."
              /\ SubSeq(measurement_locale, u + 1, d - 1)
                    \in ListedTerritories )

\* C9 amended: true exactly when the string has a '_' and a '.', its first
\* '.' stands after its first '_', and the text between the two is a
\* listed territory; a '.' before the first '_' makes it false.
C9_TerritoryUpToFirstDot ==
    pc # "start" =>
      ( locale_uses_fahrenheit <=>
          \E u, d \in DOMAIN measurement_locale :
              /\ IsFirst(measurement_locale, u, "_")
              /\ IsFirst(measurement_locale, d, ".")
              /\ u < d
              /\ SubSeq(measurement_locale, u + 1, d - 1)
                    \in ListedTerritories )

\* C9 witness: a language_TERRITORY.codeset name found to use Fahrenheit.
C9_Witness ==
    /\ pc # "start"
    /\ locale_uses_fahrenheit
    /\ Find(measurement_locale, "_") = 2
    /\ Find(measurement_locale, ".") = 5
    /\ Len(measurement_locale) > 6

\* C10 as stated: with unit flags as the only option tokens (and no "--"),
\* a number of non-option tokens other than two is a usage error: usage
\* line and hint on stderr, no token parsed, nothing printed, status 1.
C10_WrongCountIsUsageError ==
    ( /\ Finished
      /\ NoOtherOptionTokens(cmdline)
      /\ MarkerAt(cmdline) > Len(cmdline)
      /\ Len(NonOptionTokens(cmdline)) # 2 )
    => /\ exit_status = 1
       /\ err = << Line(kShortUsage), Line(kAskForHelp) >>
       /\ out = <<>>
       /\ temperature = nullopt /\ humidity = nullopt
       /\ ~calc.called

\* C10 amended: when option processing handles unit flags only, a number
\* of arguments left after it other than two is a usage error; with
\* POSIXLY_CORRECT set every argument from the first operand on is left.
C10_WrongCountAfterOptionProcessing ==
    ( /\ Finished
      /\ OnlyUnitFlags(cmdline)
      /\ Len(PositionalsOf(cmdline)) # 2 )
    => /\ exit_status = 1
       /\ err = << Line(kShortUsage), Line(kAskForHelp) >>
       /\ out = <<>>
       /\ temperature = nullopt /\ humidity = nullopt
       /\ ~calc.called

\* C10 witness: with POSIXLY_CORRECT set, two operands and a unit flag after
\* them are three arguments left, and the run ends in the usage error.
C10_Witness ==
    /\ Finished
    /\ posixly_correct
    /\ Len(cmdline) = 3 /\ IsOperand(cmdline[1]) /\ IsOperand(cmdline[2])
    /\ IsUnitFlag(cmdline[3])
    /\ Len(PositionalsOf(cmdline)) = 3
    /\ exit_status = 1
    /\ err = << Line(kShortUsage), Line(kAskForHelp) >>

====
